---- MODULE Spec2Model ----
(***************************************************************************)
(* Session discovery of internal/claude/sessions.go: decodePath, the       *)
(* [GAS TOWN] beacon pattern, parseSession (the line scan of one log file) *)
(* and DiscoverSessions (walk, filter, sort, limit).                       *)
(*                                                                         *)
(* Strings are sequences of one-character strings, so that prefix, suffix, *)
(* substring, case folding and the pattern are computed, not assumed.      *)
(* The ten-character literal "[GAS TOWN]" is the single element TAG: it    *)
(* contains a blank, so as a unit it belongs to the topic class (anything  *)
(* but a bullet) and to none of the white-space, non-space and role        *)
(* classes.                                                                *)
(***************************************************************************)
EXTENDS Integers, Sequences, FiniteSets, TLC

(***************************************************************************)
(* Strings                                                                 *)
(***************************************************************************)
End(s) == Len(s) + 1

Max(S) == CHOOSE x \in S : \A y \in S : y <= x

Min(S) == CHOOSE x \in S : \A y \in S : x <= y

\* strings.HasPrefix
HasPrefix(s, p) == Len(p) <= Len(s) /\ SubSeq(s, 1, Len(p)) = p

\* strings.HasSuffix
HasSuffix(s, p) == Len(p) <= Len(s) /\ SubSeq(s, Len(s) - Len(p) + 1, Len(s)) = p

\* strings.TrimSuffix
TrimSuffix(s, p) == IF HasSuffix(s, p) THEN SubSeq(s, 1, Len(s) - Len(p)) ELSE s

\* strings.Contains
Contains(s, sub) == \E i \in 1..(Len(s) - Len(sub) + 1) : SubSeq(s, i, i + Len(sub) - 1) = sub

\* strings.ReplaceAll(s, old, new) for one-character old and new
ReplaceAll(s, old, new) == [i \in 1..Len(s) |-> IF s[i] = old THEN new ELSE s[i]]

UpperToLower == [c \in {"A", "B", "C", "D", "E", "F", "G", "H", "I", "J", "K", "L", "M",
                        "N", "O", "P", "Q", "R", "S", "T", "U", "V", "W", "X", "Y", "Z"} |->
                   CASE c = "A" -> "a" [] c = "B" -> "b" [] c = "C" -> "c" [] c = "D" -> "d"
                     [] c = "E" -> "e" [] c = "F" -> "f" [] c = "G" -> "g" [] c = "H" -> "h"
                     [] c = "I" -> "i" [] c = "J" -> "j" [] c = "K" -> "k" [] c = "L" -> "l"
                     [] c = "M" -> "m" [] c = "N" -> "n" [] c = "O" -> "o" [] c = "P" -> "p"
                     [] c = "Q" -> "q" [] c = "R" -> "r" [] c = "S" -> "s" [] c = "T" -> "t"
                     [] c = "U" -> "u" [] c = "V" -> "v" [] c = "W" -> "w" [] c = "X" -> "x"
                     [] c = "Y" -> "y" [] c = "Z" -> "z"]

\* strings.ToLower
ToLower(s) == [i \in 1..Len(s) |-> IF s[i] \in DOMAIN UpperToLower THEN UpperToLower[s[i]] ELSE s[i]]

(***************************************************************************)
(* decodePath                                                              *)
(***************************************************************************)
\* decodePath with the leading dash replaced and no other
decodePathLeadingOnly(encoded) ==
    IF HasPrefix(encoded, <<"-">>) THEN <<"/">> \o SubSeq(encoded, 2, Len(encoded))
    ELSE encoded

decodePath(encoded) == LET e == IF HasPrefix(encoded, <<"-">>)
                                  THEN <<"/">> \o SubSeq(encoded, 2, Len(encoded))
                                  ELSE encoded
                       IN  ReplaceAll(e, "-", "/")

\* gasTownPattern, matched leftmost-first as regexp.FindStringSubmatch does:
\*   \[GAS TOWN\]\s+([^\s•]+)\s*(?:•\s*([^•]+?)\s*)?(?:•\s*(\S+))?\s*$
TAG == "[GAS TOWN]"

\* the field separator, U+2022
BULLET == "U+2022"

IsSpace(c) == c \in {" ", "\t"}

\* [^\s•]: TAG as a unit is not in the class (it contains a blank)
IsRoleChar(c) == ~IsSpace(c) /\ c # BULLET /\ c # TAG

\* \S: TAG as a unit is not in the class
IsNonSpace(c) == ~IsSpace(c) /\ c # TAG

\* the end of the longest run of white space starting at j (greedy \s*)
SkipSpace(s, j) == Min({k \in j..End(s) : k = End(s) \/ ~IsSpace(s[k])})

\* the end of the longest run of [^\s•] starting at j
SkipRole(s, j) == Min({k \in j..End(s) : k = End(s) \/ ~IsRoleChar(s[k])})

\* the end of the longest run of \S starting at j
SkipNonSpace(s, j) == Min({k \in j..End(s) : k = End(s) \/ ~IsNonSpace(s[k])})

\* (?:•\s*(\S+)) at k followed by \s*$
GroupThree(s, k) == /\ k <= Len(s)
                    /\ s[k] = BULLET
                    /\ LET m == SkipSpace(s, k + 1)
                           n == SkipNonSpace(s, m)
                       IN  n > m /\ SkipSpace(s, n) = End(s)

\* \s*(?:•\s*(\S+))?\s*$ from j
RestOK(s, j) == LET k == SkipSpace(s, j)
                IN  k = End(s) \/ GroupThree(s, k)

NoBullet(s, p, q) == \A m \in p..(q - 1) : s[m] # BULLET

\* the ends q of a topic [^•]+? starting at p after which the rest matches
TopicEnds(s, p) == {q \in (p + 1)..End(s) : NoBullet(s, p, q) /\ RestOK(s, q)}

\* the starts of a topic in the group opened by the bullet at j3: the greedy
\* \s* gives back white space only when no topic starts further right
TopicStarts(s, j3) == {p \in (j3 + 1)..SkipSpace(s, j3 + 1) : TopicEnds(s, p) # {}}

NoMatch == [ok |-> FALSE, role |-> << >>, topic |-> << >>]

\* the match whose tag is at i, if the pattern matches there
MatchAt(s, i) ==
    IF s[i] # TAG THEN NoMatch
    ELSE LET j1 == SkipSpace(s, i + 1)
             j2 == SkipRole(s, j1)
             j3 == SkipSpace(s, j2)
         IN  IF j1 = i + 1 \/ j2 = j1 THEN NoMatch
             ELSE IF j3 <= Len(s) /\ s[j3] = BULLET /\ TopicStarts(s, j3) # {}
                  THEN LET p == Max(TopicStarts(s, j3))
                           q == Min(TopicEnds(s, p))
                       IN  [ok |-> TRUE, role |-> SubSeq(s, j1, j2 - 1),
                            topic |-> SubSeq(s, p, q - 1)]
                  ELSE IF RestOK(s, j3)
                       THEN [ok |-> TRUE, role |-> SubSeq(s, j1, j2 - 1), topic |-> << >>]
                       ELSE NoMatch

\* the pattern anchored at the start of the text
FindStringSubmatchAtStart(s) == IF s = << >> THEN NoMatch ELSE MatchAt(s, 1)

\* gasTownPattern.FindStringSubmatch: the leftmost tag at which the pattern matches;
\* role is match[1], topic is match[2] ("" for a group that took no part)
FindStringSubmatch(s) ==
    LET starts == {i \in 1..Len(s) : MatchAt(s, i).ok}
    IN  IF starts = {} THEN NoMatch ELSE MatchAt(s, Min(starts))

\* strings.TrimSpace
TrimSpace(s) ==
    LET keep == {i \in 1..Len(s) : ~IsSpace(s[i])}
    IN  IF keep = {} THEN << >> ELSE SubSeq(s, Min(keep), Max(keep))

(***************************************************************************)
(* ShortID (lines 245-250).  len and the slice expression of a Go string   *)
(* count bytes: id is the byte sequence of the ID.                         *)
(***************************************************************************)
ShortIDLen == 8

ShortID(id) == IF Len(id) > ShortIDLen THEN SubSeq(id, 1, ShortIDLen) ELSE id

(***************************************************************************)
(* Records of a log file.  A line either fails json.Unmarshal (dec = FALSE)*)
(* or carries the fields the scan reads.  A timestamp is empty, a text     *)
(* time.Parse rejects, or an RFC 3339 time; t counts from the zero         *)
(* time.Time (0001-01-01T00:00:00Z), so t = 0 is the instant IsZero        *)
(* reports and t < 0 an instant before it (an offset such as +01:00 on     *)
(* that date, or year 0000).                                               *)
(***************************************************************************)
MaxTime == 1

Instants == (0 - 1)..MaxTime

EmptyStr == << >>

NoTimestamp == [txt |-> "empty", t |-> 0]

BadTimestamp == [txt |-> "bad", t |-> 0]

Rfc(t) == [txt |-> "rfc", t |-> t]

Timestamps == {NoTimestamp, BadTimestamp} \cup {Rfc(t) : t \in Instants}

\* time.Parse(time.RFC3339, ts)
ParseTime(ts) == [err |-> ts.txt # "rfc", t |-> IF ts.txt = "rfc" THEN ts.t ELSE 0]

\* time.Time.IsZero
IsZero(t) == t = 0

\* message payloads: absent, a JSON string, an object with a string content,
\* an object whose content is not a string (a list of blocks)
NoMsg == [shape |-> "none", text |-> EmptyStr]

StrMsg(text) == [shape |-> "string", text |-> text]

ObjMsg(text) == [shape |-> "object", text |-> text]

BlocksMsg(text) == [shape |-> "blocks", text |-> text]

\* extractMessageContent
extractMessageContent(msg) ==
    CASE msg.shape = "none" -> EmptyStr
      [] msg.shape = "string" -> msg.text
      [] msg.shape = "object" -> msg.text
      [] OTHER -> EmptyStr

BadLine == [dec |-> FALSE, type |-> "", summary |-> EmptyStr, sessionId |-> EmptyStr,
            timestamp |-> NoTimestamp, message |-> NoMsg]

Rec(type, summary, sid, ts, msg) ==
    [dec |-> TRUE, type |-> type, summary |-> summary, sessionId |-> sid,
     timestamp |-> ts, message |-> msg]

(***************************************************************************)
(* parseSession                                                            *)
(***************************************************************************)
EarlyExitLines == 20

JSONL == <<".", "j", "s", "o", "n", "l">>

\* filepath.Base for a path without a trailing separator
Base(path) ==
    LET seps == {i \in 1..Len(path) : path[i] = "/"}
    IN  IF seps = {} THEN path ELSE SubSeq(path, Max(seps) + 1, Len(path))

\* the descriptor parseSession starts from (lines 132-139)
NewInfo(filePath, projectPath) ==
    [ID |-> TrimSuffix(Base(filePath), JSONL), Path |-> projectPath, Role |-> EmptyStr,
     Topic |-> EmptyStr, StartTime |-> 0, Summary |-> EmptyStr, IsGasTown |-> FALSE,
     FilePath |-> filePath]

\* line 1 (lines 152-161)
ParseFirstLine(info, line) ==
    IF line.dec /\ line.type = "summary" THEN [info EXCEPT !.Summary = line.summary] ELSE info

\* SetStartTime without the IsZero guard: the last timestamp wins
SetStartTimeLastWins(info, line) ==
    IF line.timestamp.txt # "empty" /\ ~ParseTime(line.timestamp).err
    THEN [info EXCEPT !.StartTime = ParseTime(line.timestamp).t]
    ELSE info

\* lines 176-180
SetStartTime(info, line) ==
    IF line.timestamp.txt # "empty" /\ IsZero(info.StartTime) /\ ~ParseTime(line.timestamp).err
    THEN [info EXCEPT !.StartTime = ParseTime(line.timestamp).t]
    ELSE info

\* SetSessionID without the test for an empty ID
SetSessionIDAlways(info, line) ==
    IF line.sessionId # EmptyStr THEN [info EXCEPT !.ID = line.sessionId] ELSE info

\* lines 183-185
SetSessionID(info, line) ==
    IF info.ID = EmptyStr /\ line.sessionId # EmptyStr
    THEN [info EXCEPT !.ID = line.sessionId]
    ELSE info

\* SetBeacon without the IsGasTown guard: the last beacon wins
SetBeaconLastWins(info, line) ==
    LET match == FindStringSubmatch(extractMessageContent(line.message))
    IN  IF match.ok
        THEN [info EXCEPT !.IsGasTown = TRUE, !.Role = match.role,
                          !.Topic = TrimSpace(match.topic)]
        ELSE info

\* lines 188-197
SetBeacon(info, line) ==
    IF ~info.IsGasTown
    THEN LET match == FindStringSubmatch(extractMessageContent(line.message))
         IN  IF match.ok
             THEN [info EXCEPT !.IsGasTown = TRUE, !.Role = match.role,
                               !.Topic = TrimSpace(match.topic)]
             ELSE info
    ELSE info

\* a line after the first (lines 164-198)
ParseRecord(info, line) ==
    IF ~line.dec THEN info
    ELSE IF line.type = "user"
         THEN SetBeacon(SetSessionID(SetStartTime(info, line), line), line)
         ELSE info

\* ParseLine without the special case of line 1
ParseLineNoFirst(info, line, n) == ParseRecord(ParseFirstLine(info, line), line)

\* the body of the scan loop for line number n (lines 148-198)
ParseLine(info, line, n) == IF n = 1 THEN ParseFirstLine(info, line) ELSE ParseRecord(info, line)

\* ReachesTest without the continue of lines 170-172
ReachesTestUndecoded(line, n) == n # 1

\* whether the loop body for line n reaches the test of line 201
ReachesTest(line, n) == n # 1 /\ line.dec

\* StopTest with the line count compared by >=
StopTestAtLeast(info, n) == info.IsGasTown /\ ~IsZero(info.StartTime) /\ n >= EarlyExitLines

\* StopTest without the beacon
StopTestNoBeacon(info, n) == ~IsZero(info.StartTime) /\ n > EarlyExitLines

\* the test of line 201, on the descriptor after line n
StopTest(info, n) == info.IsGasTown /\ ~IsZero(info.StartTime) /\ n > EarlyExitLines

\* whether the loop breaks after line n
Breaks(info, line, n) == ReachesTest(line, n) /\ StopTest(info, n)

(***************************************************************************)
(* The scan of one file, line by line.  Each line read is any element of   *)
(* Lines; the file may end, or the read may fail, after any line.  hist    *)
(* records what the lines read so far contained, independently of the      *)
(* descriptor.                                                             *)
(***************************************************************************)
MaxLines == 22

\* message texts: a tag without the white space the pattern needs; role only;
\* role and topic inside a longer text
BrokenText == <<TAG, "a">>

RoleText == <<TAG, " ", "c">>

TopicText == <<"x", " ", TAG, " ", "W", " ", BULLET, " ", "t", " ">>

Messages == {NoMsg, StrMsg(BrokenText), StrMsg(RoleText), ObjMsg(TopicText),
             BlocksMsg(RoleText)}

UserLines == {Rec("user", EmptyStr, <<"u">>, ts, msg) : ts \in Timestamps, msg \in Messages}

\* records of other types, some carrying what a user record would
OtherLines == {Rec("summary", <<"S">>, EmptyStr, NoTimestamp, NoMsg),
               Rec("summary", EmptyStr, <<"u">>, Rfc(MaxTime), StrMsg(RoleText)),
               Rec("assistant", EmptyStr, <<"u">>, Rfc(MaxTime), StrMsg(RoleText))}

Lines == {BadLine} \cup UserLines \cup OtherLines

ScanDir == <<"-", "g", "t">>

ScanFile == <<"s">> \o JSONL

\* parseSession on one file
VARIABLES spc, info, lineNum, exit, hist

\* one call of a function of the package: fn(arg) returns ret
VARIABLES ppc, fn, arg, ret

\* DiscoverSessions; source[i] is the file content scanned[i] was read from
VARIABLES dpc, filter, entries, ei, fi, sessions, result, outcome, opened, scanned, source

\* the state of the path ~/.claude/projects, and what runSeance does with the
\* result of DiscoverSessions
VARIABLES root, report

\* the log files on which DiscoverSessions holds an open handle
VARIABLES handles

scanVars == <<spc, info, lineNum, exit, hist>>

discVars == <<dpc, filter, entries, ei, fi, sessions, result, outcome, opened, scanned,
             source, root, report, handles>>

pureVars == <<ppc, fn, arg, ret>>

vars == <<scanVars, discVars, pureVars>>

NoInfo == NewInfo(EmptyStr, EmptyStr)

\* SessionFilter{}
NoFilter == [GasTownOnly |-> FALSE, Role |-> EmptyStr, Rig |-> EmptyStr, Path |-> EmptyStr,
             Limit |-> 0]

\* firstUser: the timestamp of the first record of type "user" read, on any line
\*   ("none" before one is read)
\* firstQual: the time of the first user record after line 1 whose timestamp
\*   parses to a non-zero time (0 before one is read)
\* minQual: the earliest parsed time among the user records examined so far,
\*   as a set of at most one element (empty before one is read)
\* firstMatch: the beacon of the first user record after line 1 that has one
\* line3: line 3 was a user record with a beacon
\* tested: the last line read was decoded and was not line 1
\* decoded: the last line read was decoded
NoHist == [firstUser |-> [txt |-> "none", t |-> 0],
           firstQual |-> 0,
           minQual |-> {},
           firstMatch |-> [found |-> FALSE, role |-> EmptyStr, topic |-> EmptyStr],
           line3 |-> FALSE,
           tested |-> FALSE,
           decoded |-> FALSE]

\* a user record the scan examines: decoded, not on line 1
IsUserRecord(line, n) == n > 1 /\ line.dec /\ line.type = "user"

BeaconOf(line) == FindStringSubmatch(extractMessageContent(line.message))

\* hist after line n has been read
Record(h, line, n) ==
    [firstUser |-> IF h.firstUser.txt = "none" /\ line.dec /\ line.type = "user"
                   THEN line.timestamp ELSE h.firstUser,
     firstQual |-> IF h.firstQual = 0 /\ IsUserRecord(line, n) /\ line.timestamp.txt = "rfc"
                   THEN line.timestamp.t ELSE h.firstQual,
     minQual |-> IF IsUserRecord(line, n) /\ line.timestamp.txt = "rfc"
                 THEN {Min(h.minQual \cup {line.timestamp.t})} ELSE h.minQual,
     firstMatch |-> IF ~h.firstMatch.found /\ IsUserRecord(line, n) /\ BeaconOf(line).ok
                    THEN [found |-> TRUE, role |-> BeaconOf(line).role,
                          topic |-> TrimSpace(BeaconOf(line).topic)]
                    ELSE h.firstMatch,
     line3 |-> h.line3 \/ (n = 3 /\ IsUserRecord(line, n) /\ BeaconOf(line).ok),
     tested |-> n > 1 /\ line.dec,
     decoded |-> line.dec]

\* nothing printed, no error returned
NoReport == [text |-> "", err |-> FALSE]

\* no discovery under way
DiscIdle ==
    /\ dpc = "idle"
    /\ filter = NoFilter
    /\ entries = << >>
    /\ ei = 0
    /\ fi = 0
    /\ sessions = << >>
    /\ result = << >>
    /\ outcome = "none"
    /\ opened = {}
    /\ scanned = << >>
    /\ source = << >>
    /\ root = ""
    /\ report = NoReport
    /\ handles = {}

\* no function call under way
PureIdle ==
    /\ ppc = "idle"
    /\ fn = ""
    /\ arg = << >>
    /\ ret = << >>

ScanInit ==
    /\ spc = "open"
    /\ info = NoInfo
    /\ lineNum = 0
    /\ exit = "none"
    /\ hist = NoHist
    /\ DiscIdle
    /\ PureIdle

\* os.Open fails: parseSession returns the error (lines 126-129)
OpenFails ==
    /\ spc = "open"
    /\ spc' = "done"
    /\ exit' = "openerr"
    /\ UNCHANGED <<info, lineNum, hist, discVars, pureVars>>

\* os.Open succeeds (lines 126-146)
Open ==
    /\ spc = "open"
    /\ info' = NewInfo(ScanDir \o <<"/">> \o ScanFile, decodePath(ScanDir))
    /\ spc' = "scan"
    /\ UNCHANGED <<lineNum, exit, hist, discVars, pureVars>>

\* scanner.Scan() delivers a line and the loop body runs (lines 147-203);
\* a break returns the descriptor and closes the file
ScanLine ==
    /\ spc = "scan"
    /\ lineNum < MaxLines
    /\ \E line \in Lines :
         LET n == lineNum + 1
             next == ParseLine(info, line, n)
         IN  /\ lineNum' = n
             /\ info' = next
             /\ hist' = Record(hist, line, n)
             /\ IF Breaks(next, line, n)
                THEN spc' = "done" /\ exit' = "break"
                ELSE spc' = "scan" /\ exit' = exit
    /\ UNCHANGED <<discVars, pureVars>>

\* scanner.Scan() returns false at the end of the file (lines 147, 206)
ScanEOF ==
    /\ spc = "scan"
    /\ spc' = "done"
    /\ exit' = "eof"
    /\ UNCHANGED <<info, lineNum, hist, discVars, pureVars>>

\* scanner.Scan() returns false before the end of the file: a read error, or
\* a line longer than the 1 MiB the buffer may grow to (lines 143-147, 206)
ScanFails ==
    /\ spc = "scan"
    /\ spc' = "done"
    /\ exit' = "readerr"
    /\ UNCHANGED <<info, lineNum, hist, discVars, pureVars>>

ScanNext == OpenFails \/ Open \/ ScanLine \/ ScanEOF \/ ScanFails

SpecScan == ScanInit /\ [][ScanNext]_vars

(***************************************************************************)
(* Properties of the scan                                                  *)
(***************************************************************************)
Scanned == spc = "done" /\ exit # "openerr"

\* C1 as stated: the descriptor's startTime is the timestamp of the first record
\* of type "user" in the file, and is zero only if the file has no such record.
C1_StartTimeOfFirstUserRecord ==
    Scanned => /\ hist.firstUser.txt = "rfc" => info.StartTime = hist.firstUser.t
               /\ IsZero(info.StartTime) => hist.firstUser.txt = "none"

\* C1 as amended: the descriptor's startTime is the time of the first record
\* read after line 1 that decodes with type "user" and whose timestamp parses to
\* a non-zero time, and is zero exactly when no such record was read.
C1_StartTimeOfFirstQualifyingRecord ==
    Scanned => info.StartTime = hist.firstQual

C1_Witness ==
    /\ Scanned
    /\ hist.firstUser.txt = "bad"
    /\ ~IsZero(hist.firstQual)
    /\ info.StartTime = hist.firstQual

\* C2 as stated: once a beacon is found, startTime is set and the line just
\* processed is numbered 20 or more, no further line is read.
C2_StopsFromLine20 ==
    [][(lineNum >= EarlyExitLines /\ info.IsGasTown /\ ~IsZero(info.StartTime))
          => lineNum' = lineNum]_vars

\* C2 as amended: the scan stops early exactly after a line numbered 21 or more
\* that decoded as a record, with a beacon found and startTime set by then; no
\* line is read after it.
C2_StopsAfterLine20 ==
    LET cond == /\ lineNum > EarlyExitLines
                /\ hist.tested
                /\ info.IsGasTown
                /\ ~IsZero(info.StartTime)
    IN  /\ cond => (spc = "done" /\ exit = "break")
        /\ exit = "break" => cond

C2_Witness == exit = "break" /\ lineNum = EarlyExitLines + 1

\* C3 as stated: a file in which no user record yields a beacon is examined up to
\* its last line, and its descriptor is not beaconed and has no role; a beacon in
\* a user record on line 3 gives a beaconed descriptor with a role.
C3_NoBeaconReadsToEnd ==
    /\ (Scanned /\ ~hist.firstMatch.found)
          => (exit = "eof" /\ ~info.IsGasTown /\ info.Role = EmptyStr)
    /\ hist.line3 => (info.IsGasTown /\ info.Role # EmptyStr)

\* C3 as amended: a file in which no user record yields a beacon is examined up
\* to its last line or up to the line at which reading fails, never stopped by
\* the early exit, and its descriptor is not beaconed and has no role; a beacon
\* in a user record read on line 3 gives a beaconed descriptor with a role.
C3_NoBeaconNoEarlyExit ==
    /\ (Scanned /\ ~hist.firstMatch.found)
          => (exit \in {"eof", "readerr"} /\ ~info.IsGasTown /\ info.Role = EmptyStr)
    /\ hist.line3 => (info.IsGasTown /\ info.Role # EmptyStr)

C3_Witness ==
    /\ exit = "eof"
    /\ ~hist.firstMatch.found
    /\ lineNum > EarlyExitLines
    /\ ~IsZero(info.StartTime)

\* C4: within one scan, isBeaconed never goes back to false, role and topic
\* stay those of the first user record with a beacon, and a non-zero startTime
\* is never changed.
C4_WriteOnce ==
    [][/\ info.IsGasTown => /\ info'.IsGasTown
                            /\ info'.Role = info.Role
                            /\ info'.Topic = info.Topic
       /\ info'.IsGasTown => /\ hist'.firstMatch.found
                             /\ info'.Role = hist'.firstMatch.role
                             /\ info'.Topic = hist'.firstMatch.topic
       /\ ~IsZero(info.StartTime) => info'.StartTime = info.StartTime]_vars

C4_Witness ==
    /\ info.IsGasTown
    /\ ~IsZero(info.StartTime)
    /\ hist.minQual # {info.StartTime}
    /\ lineNum > 3

\* C5 as stated: a non-zero startTime is the minimum of the timestamps of the
\* user records examined so far.
C5_StartTimeIsMinimum ==
    ~IsZero(info.StartTime) => \A t \in hist.minQual : info.StartTime <= t

\* C5 as amended: at every point of the scan a non-zero startTime is the first
\* qualifying timestamp in line order among the user records examined so far
\* (never a later one), whether or not a later record carries an earlier time.
C5_StartTimeIsFirstSeen ==
    ~IsZero(info.StartTime) => /\ info.StartTime = hist.firstQual
                               /\ \E t \in hist.minQual : t <= info.StartTime

C5_Witness ==
    /\ ~IsZero(info.StartTime)
    /\ spc = "scan"
    /\ \E t \in hist.minQual : t < info.StartTime

(***************************************************************************)
(* DiscoverSessions                                                        *)
(***************************************************************************)
AGENT == <<"a", "g", "e", "n", "t", "-">>

\* filepath.Join
Join(dir, name) == dir \o <<"/">> \o name

\* $HOME/.claude/projects
ProjectsDir == <<"~">>

\* RigPasses with the rig name looked for anywhere in the path
RigPassesSubstring(f, projectPath) == f.Rig = EmptyStr \/ Contains(projectPath, f.Rig)

\* lines 65-67
RigPasses(f, projectPath) ==
    f.Rig = EmptyStr \/ Contains(projectPath, <<"/">> \o f.Rig \o <<"/">>)

\* lines 68-70
PathPasses(f, projectPath) == f.Path = EmptyStr \/ Contains(projectPath, f.Path)

\* lines 57-76: the entry is a directory, passes the early filters and can be listed
EntryPasses(f, entry) ==
    /\ entry.isDir
    /\ RigPasses(f, decodePath(entry.name))
    /\ PathPasses(f, decodePath(entry.name))
    /\ entry.readable

\* IsSessionFile without the test for the sub-agent prefix
IsSessionFileAnyPrefix(name) == HasSuffix(name, JSONL)

\* lines 79-86
IsSessionFile(name) == HasSuffix(name, JSONL) /\ ~HasPrefix(name, AGENT)

\* Keep with the role filter compared as written
KeepCaseSensitive(f, d) ==
    /\ ~(f.GasTownOnly /\ ~d.IsGasTown)
    /\ f.Role # EmptyStr => (Contains(d.Role, f.Role) \/ Contains(d.Path, f.Role))

\* lines 95-105
Keep(f, d) ==
    /\ ~(f.GasTownOnly /\ ~d.IsGasTown)
    /\ f.Role # EmptyStr =>
          LET roleMatch == Contains(ToLower(d.Role), ToLower(f.Role))
              pathMatch == Contains(ToLower(d.Path), ToLower(f.Role))
          IN  roleMatch \/ pathMatch

\* the whole scan of a file whose lines are content.lines and whose read fails
\* at line content.failAt (0: never), from line n on (lines 147-206)
RECURSIVE ScanFrom(_, _, _)
ScanFrom(d, content, n) ==
    IF n > Len(content.lines) \/ n = content.failAt THEN d
    ELSE LET next == ParseLine(d, content.lines[n], n)
         IN  IF Breaks(next, content.lines[n], n) THEN next
             ELSE ScanFrom(next, content, n + 1)

\* parseSession on a file that opens
parseSession(filePath, projectPath, content) ==
    ScanFrom(NewInfo(filePath, projectPath), content, 1)

\* how that scan ends: "break" (line 201), "eof" or "readerr" (scanner.Scan()
\* returns false, line 147)
RECURSIVE ExitFrom(_, _, _)
ExitFrom(d, content, n) ==
    IF n = content.failAt THEN "readerr"
    ELSE IF n > Len(content.lines) THEN "eof"
    ELSE LET next == ParseLine(d, content.lines[n], n)
         IN  IF Breaks(next, content.lines[n], n) THEN "break"
             ELSE ExitFrom(next, content, n + 1)

ScanExit(filePath, projectPath, content) == ExitFrom(NewInfo(filePath, projectPath), content, 1)

\* a Close placed at the end of the function, which the break jumps past
CloseAtEnd(open, filePath, how) == IF how = "break" THEN open ELSE open \ {filePath}

\* line 130: defer file.Close() runs however parseSession returns
Close(open, filePath, how) == open \ {filePath}

\* less with the comparison turned round
LessBefore(a, b) == a.StartTime < b.StartTime

\* line 113: sessions[i].StartTime.After(sessions[j].StartTime)
Less(a, b) == a.StartTime > b.StartTime

Swap(data, i, j) == [data EXCEPT ![i] = data[j], ![j] = data[i]]

\* sort.Slice on at most 12 elements is this insertion sort
RECURSIVE InsertLeft(_, _)
InsertLeft(data, j) ==
    IF j > 1 /\ Less(data[j], data[j - 1]) THEN InsertLeft(Swap(data, j, j - 1), j - 1)
    ELSE data

RECURSIVE InsertionSortFrom(_, _)
InsertionSortFrom(data, i) ==
    IF i > Len(data) THEN data ELSE InsertionSortFrom(InsertLeft(data, i), i + 1)

\* a sort that swaps the latest remaining element into place: not stable
RECURSIVE SelectionSortFrom(_, _)
SelectionSortFrom(data, i) ==
    IF i >= Len(data) THEN data
    ELSE LET m == CHOOSE k \in i..Len(data) :
                     /\ \A l \in i..Len(data) : ~Less(data[l], data[k])
                     /\ \A l \in i..(k - 1) : Less(data[k], data[l])
         IN  SelectionSortFrom(Swap(data, i, m), i + 1)

SortSliceBySelection(data) == SelectionSortFrom(data, 1)

\* lines 112-114
SortSlice(data) == InsertionSortFrom(data, 2)

\* ApplyLimit with a limit of zero taken as a limit
ApplyLimitFromZero(data, limit) ==
    IF limit >= 0 /\ Len(data) > limit THEN SubSeq(data, 1, limit) ELSE data

\* lines 117-119
ApplyLimit(data, limit) ==
    IF limit > 0 /\ Len(data) > limit THEN SubSeq(data, 1, limit) ELSE data

(***************************************************************************)
(* The storage root: project directories in the order os.ReadDir lists     *)
(* them (by name), each with its files in that order.                      *)
(***************************************************************************)
MaxLimit == 2

UserAs(sid, ts, msg) == Rec("user", EmptyStr, sid, ts, msg)

User(ts, msg) == UserAs(<<"u">>, ts, msg)

SummaryLine == Rec("summary", <<"S">>, EmptyStr, NoTimestamp, NoMsg)

Filler == Rec("assistant", EmptyStr, EmptyStr, NoTimestamp, NoMsg)

Whole(lines) == [lines |-> lines, failAt |-> 0]

\* a role-only beacon on line 2
RoleFile(t) == Whole(<<SummaryLine, User(Rfc(t), StrMsg(RoleText))>>)

\* a beacon with a topic on line 3, after a line that does not decode
TopicFile(t) == Whole(<<SummaryLine, BadLine, User(Rfc(t), ObjMsg(TopicText))>>)

\* a beacon on line 1 only, where it is not looked for
PlainFile(t) == Whole(<<User(Rfc(MaxTime), StrMsg(RoleText)), User(Rfc(t), StrMsg(BrokenText))>>)

\* a beacon and a timestamp on line 2 and lines beyond the early exit
LongFile == Whole(<<SummaryLine, User(Rfc(MaxTime), StrMsg(RoleText))>>
                  \o [i \in 1..EarlyExitLines |-> Filler]
                  \o <<User(Rfc(0 - 1), ObjMsg(TopicText))>>)

\* the read fails at line 2
TruncatedFile == [lines |-> <<SummaryLine, User(Rfc(MaxTime), StrMsg(RoleText))>>, failAt |-> 2]

\* no timestamp, no beacon, a session id
BareFile == Whole(<<SummaryLine, User(NoTimestamp, NoMsg)>>)

\* session ids on line 1, on a record that is not a user record and on two
\* user records after one without
TwoIdFile == Whole(<<UserAs(<<"w">>, NoTimestamp, NoMsg),
                     Rec("assistant", EmptyStr, <<"x">>, NoTimestamp, NoMsg),
                     UserAs(EmptyStr, NoTimestamp, NoMsg),
                     UserAs(<<"u">>, NoTimestamp, NoMsg),
                     UserAs(<<"v">>, NoTimestamp, NoMsg)>>)

\* session ids on line 1 and on a record that is not a user record only
NoIdFile == Whole(<<UserAs(<<"w">>, NoTimestamp, NoMsg),
                    Rec("assistant", EmptyStr, <<"x">>, NoTimestamp, NoMsg),
                    UserAs(EmptyStr, NoTimestamp, NoMsg)>>)

\* a beacon and a timestamp on line 2, and the first session id on a user
\* record beyond the early exit
LateIdFile == Whole(<<SummaryLine, UserAs(EmptyStr, Rfc(MaxTime), StrMsg(RoleText))>>
                    \o [i \in 1..EarlyExitLines |-> Filler]
                    \o <<UserAs(<<"v">>, NoTimestamp, NoMsg)>>)

LogFile(name, openable, contents) == [name |-> name, openable |-> openable, contents |-> contents]

Universe ==
    << [name |-> <<"-", "G", "T", "-", "W">>, isDir |-> TRUE, readable |-> TRUE,
        files |-> << LogFile(<<"d">> \o JSONL, TRUE, {LongFile}),
                     LogFile(<<"t">> \o JSONL, TRUE, {TruncatedFile}) >>],
       [name |-> <<"-", "g", "t", "-", "r">>, isDir |-> TRUE, readable |-> TRUE,
        files |-> << LogFile(<<"c">> \o JSONL, TRUE, {RoleFile(t) : t \in Instants}),
                     LogFile(<<"f">> \o JSONL, FALSE, {RoleFile(MaxTime)}) >>],
       [name |-> <<"-", "g", "t", "-", "r", "-", "c">>, isDir |-> TRUE, readable |-> TRUE,
        files |-> << LogFile(JSONL, TRUE, {BareFile, TwoIdFile, NoIdFile, LateIdFile}),
                     LogFile(<<"a">> \o JSONL, TRUE, {TopicFile(t) : t \in Instants}),
                     LogFile(AGENT \o <<"1">> \o JSONL, TRUE, {RoleFile(MaxTime)}),
                     LogFile(<<"b">> \o JSONL, TRUE, {PlainFile(t) : t \in Instants}),
                     LogFile(<<"n", ".", "t", "x", "t">>, TRUE, {RoleFile(MaxTime)}) >>],
       [name |-> <<"-", "g", "t", "-", "r", "-", "u">>, isDir |-> TRUE, readable |-> FALSE,
        files |-> << LogFile(<<"e">> \o JSONL, TRUE, {RoleFile(MaxTime)}) >>],
       [name |-> <<"-", "g", "t", "-", "r", "-", "z">>, isDir |-> FALSE, readable |-> FALSE,
        files |-> << >>] >>

\* ~/.claude/projects: there is no such entry (os.Stat fails with ENOENT); the
\* path cannot be followed because ~/.claude is a regular file, so there is no
\* such directory either (os.Stat and os.ReadDir fail with ENOTDIR, which
\* os.IsNotExist does not count as missing); the directory exists and cannot
\* be listed; the directory exists and can be listed
Roots == {"missing", "blocked", "unlistable", "listable"}

\* the entries that may be missing from the storage root
Optional == {Universe[i].name : i \in 1..3}

Filters == [GasTownOnly : BOOLEAN,
            Role : {EmptyStr, <<"C">>, <<"w">>},
            Rig : {EmptyStr, <<"r">>},
            Path : {EmptyStr, <<"/", "g", "t">>},
            Limit : {0 - 1, 0, MaxLimit}]

Present(missing) == SelectSeq(Universe, LAMBDA e : e.name \notin missing)

ScanIdle ==
    /\ spc = "idle"
    /\ info = NoInfo
    /\ lineNum = 0
    /\ exit = "none"
    /\ hist = NoHist

\* a call of DiscoverSessions(filter) on some storage
Init ==
    /\ dpc = "stat"
    /\ filter \in Filters
    /\ \/ root = "listable" /\ \E missing \in SUBSET Optional : entries = Present(missing)
       \/ root \in Roots \ {"listable"} /\ entries = << >>
    /\ report = NoReport
    /\ ei = 0
    /\ fi = 0
    /\ sessions = << >>
    /\ result = << >>
    /\ outcome = "none"
    /\ opened = {}
    /\ scanned = << >>
    /\ source = << >>
    /\ handles = {}
    /\ ScanIdle
    /\ PureIdle

\* where the walk goes after entry i
AfterEntry(i) == IF i >= Len(entries) THEN "sort" ELSE "entry"

\* lines 44-46: the projects directory does not exist
StatAbsent ==
    /\ dpc = "stat"
    /\ root = "missing"
    /\ dpc' = "returned"
    /\ outcome' = "nostorage"
    /\ UNCHANGED <<filter, entries, ei, fi, sessions, result, opened, scanned, source, root, report,
                 handles, scanVars, pureVars>>

\* ReadDirFails with the error dropped
ReadDirFailsSilently ==
    /\ dpc = "stat"
    /\ root \in {"blocked", "unlistable"}
    /\ dpc' = "returned"
    /\ outcome' = "nostorage"
    /\ UNCHANGED <<filter, entries, ei, fi, sessions, result, opened, scanned, source, root, report,
                   handles, scanVars, pureVars>>

\* lines 51-54: the projects directory cannot be listed
ReadDirFails ==
    /\ dpc = "stat"
    /\ root \in {"blocked", "unlistable"}
    /\ dpc' = "returned"
    /\ outcome' = "error"
    /\ UNCHANGED <<filter, entries, ei, fi, sessions, result, opened, scanned, source, root, report,
                 handles, scanVars, pureVars>>

\* lines 44-54: the projects directory is listed
ReadDir ==
    /\ dpc = "stat"
    /\ root = "listable"
    /\ dpc' = AfterEntry(0)
    /\ ei' = 1
    /\ UNCHANGED <<filter, entries, fi, sessions, result, outcome, opened, scanned, source, root, report,
                 handles, scanVars, pureVars>>

\* lines 56-76: one entry of the projects directory, up to the listing of its files
VisitEntry ==
    /\ dpc = "entry"
    /\ IF EntryPasses(filter, entries[ei]) /\ entries[ei].files # << >>
       THEN dpc' = "file" /\ fi' = 1 /\ ei' = ei
       ELSE dpc' = AfterEntry(ei) /\ ei' = ei + 1 /\ fi' = fi
    /\ UNCHANGED <<filter, entries, sessions, result, outcome, opened, scanned, source, root, report,
                 handles, scanVars, pureVars>>

\* lines 78-92 and 126-129: one file of the project directory, up to os.Open
VisitFile ==
    /\ dpc = "file"
    /\ LET entry == entries[ei]
           file == entry.files[fi]
           sessionPath == Join(Join(ProjectsDir, entry.name), file.name)
           skip == IF fi < Len(entry.files)
                   THEN fi' = fi + 1 /\ ei' = ei /\ dpc' = "file"
                   ELSE fi' = fi /\ ei' = ei + 1 /\ dpc' = AfterEntry(ei)
       IN  IF ~IsSessionFile(file.name)
           THEN skip /\ UNCHANGED <<opened, handles>>
           ELSE /\ opened' = opened \cup {sessionPath}
                /\ IF ~file.openable
                   THEN skip /\ UNCHANGED handles
                   ELSE /\ handles' = handles \cup {sessionPath}
                        /\ dpc' = "scan"
                        /\ UNCHANGED <<ei, fi>>
    /\ UNCHANGED <<filter, entries, sessions, result, outcome, scanned, source, root, report,
                   scanVars, pureVars>>

\* lines 130-206 and 94-108: the scan of the file that was opened, the return
\* of parseSession and the filters on its descriptor
ScanOpened ==
    /\ dpc = "scan"
    /\ LET entry == entries[ei]
           file == entry.files[fi]
           sessionPath == Join(Join(ProjectsDir, entry.name), file.name)
       IN  \E content \in file.contents :
              LET d == parseSession(sessionPath, decodePath(entry.name), content)
                  how == ScanExit(sessionPath, decodePath(entry.name), content)
              IN  /\ scanned' = Append(scanned, d)
                  /\ source' = Append(source, content)
                  /\ sessions' = IF Keep(filter, d) THEN Append(sessions, d) ELSE sessions
                  /\ handles' = Close(handles, sessionPath, how)
    /\ IF fi < Len(entries[ei].files)
       THEN fi' = fi + 1 /\ ei' = ei /\ dpc' = "file"
       ELSE fi' = fi /\ ei' = ei + 1 /\ dpc' = AfterEntry(ei)
    /\ UNCHANGED <<filter, entries, result, outcome, opened, root, report, scanVars, pureVars>>

\* lines 112-114
Sort ==
    /\ dpc = "sort"
    /\ sessions' = SortSlice(sessions)
    /\ dpc' = "limit"
    /\ UNCHANGED <<filter, entries, ei, fi, result, outcome, opened, scanned, source, root, report,
                 handles, scanVars, pureVars>>

\* lines 117-121
Return ==
    /\ dpc = "limit"
    /\ result' = ApplyLimit(sessions, filter.Limit)
    /\ outcome' = "ok"
    /\ dpc' = "returned"
    /\ UNCHANGED <<filter, entries, ei, fi, sessions, opened, scanned, source, root, report,
                 handles, scanVars, pureVars>>

\* seance.go lines 76-84: what runSeance prints for an empty result
EmptyMessage(seanceAll) ==
    IF seanceAll THEN "No sessions found." ELSE "No Gas Town sessions found."

\* seance.go lines 65-145: runSeance after DiscoverSessions(filter) has
\* returned; it builds the filter from its flags with GasTownOnly = !seanceAll
\* and leaves Path empty (lines 58-63)
RunSeance ==
    /\ dpc = "returned"
    /\ filter.Path = EmptyStr
    /\ dpc' = "reported"
    /\ \E seanceJSON \in BOOLEAN :
         report' = IF outcome = "error" THEN [text |-> "", err |-> TRUE]
                   ELSE IF seanceJSON THEN [text |-> "json", err |-> FALSE]
                   ELSE IF Len(result) = 0
                        THEN [text |-> EmptyMessage(~filter.GasTownOnly), err |-> FALSE]
                        ELSE [text |-> "table", err |-> FALSE]
    /\ UNCHANGED <<filter, entries, ei, fi, sessions, result, outcome, opened, scanned, source,
                   root, handles, scanVars, pureVars>>

Next ==
    \/ StatAbsent
    \/ ReadDirFails
    \/ ReadDir
    \/ VisitEntry
    \/ VisitFile
    \/ ScanOpened
    \/ Sort
    \/ Return
    \/ RunSeance

Spec == Init /\ [][Next]_vars

(***************************************************************************)
(* Calls of the functions that read no file: the argument is any text of   *)
(* the sets below.                                                         *)
(***************************************************************************)
MaxName == 4

RECURSIVE Texts(_, _)
\* the texts of at most n characters of alphabet
Texts(alphabet, n) ==
    IF n = 0 THEN {<< >>}
    ELSE LET shorter == Texts(alphabet, n - 1)
         IN  shorter \cup {Append(t, c) : t \in shorter, c \in alphabet}

\* the inputs of TestDecodePath
DecodePathTests ==
    {<<"-", "U", "s", "e", "r", "s", "-", "s", "t", "e", "v", "e", "y", "-", "g", "t", "-",
       "g", "a", "s", "t", "o", "w", "n">>,
     <<"-", "U", "s", "e", "r", "s", "-", "s", "t", "e", "v", "e", "y", "-", "g", "t", "-",
       "b", "e", "a", "d", "s", "-", "c", "r", "e", "w", "-", "j", "o", "e">>,
     <<"-", "U", "s", "e", "r", "s", "-", "s", "t", "e", "v", "e", "y">>,
     <<"f", "o", "o", "-", "b", "a", "r">>}

\* directory names
Names == Texts({"-", "/", "a"}, MaxName) \cup DecodePathTests

MaxText == 6

\* the cases of TestGasTownPattern
GasTownPatternTests ==
    {[input |-> <<TAG, " ", "g", "a", "s", "t", "o", "w", "n", "/", "p", "o", "l", "e", "c", "a",
             "t", "s", "/", "f", "u", "r", "i", "o", "s", "a", " ", BULLET, " ", "r",
             "e", "a", "d", "y", " ", BULLET, " ", "2", "0", "2", "5", "-", "1", "2",
             "-", "3", "0", "T", "2", "2", ":", "4", "9">>,
      shouldMatch |-> TRUE,
      role |-> <<"g", "a", "s", "t", "o", "w", "n", "/", "p", "o", "l", "e", "c", "a", "t", "s",
             "/", "f", "u", "r", "i", "o", "s", "a">>,
      topic |-> <<"r", "e", "a", "d", "y">>],
     [input |-> <<TAG, " ", "d", "e", "a", "c", "o", "n", " ", BULLET, " ", "p", "a", "t", "r",
             "o", "l", " ", BULLET, " ", "2", "0", "2", "5", "-", "1", "2", "-", "3",
             "0", "T", "0", "8", ":", "0", "0">>,
      shouldMatch |-> TRUE,
      role |-> <<"d", "e", "a", "c", "o", "n">>,
      topic |-> <<"p", "a", "t", "r", "o", "l">>],
     [input |-> <<TAG, " ", "g", "a", "s", "t", "o", "w", "n", "/", "c", "r", "e", "w", "/", "g",
             "u", "s", " ", BULLET, " ", "a", "s", "s", "i", "g", "n", "e", "d", ":",
             "g", "t", "-", "a", "b", "c", "1", "2", " ", BULLET, " ", "2", "0", "2",
             "5", "-", "1", "2", "-", "3", "0", "T", "1", "5", ":", "4", "2">>,
      shouldMatch |-> TRUE,
      role |-> <<"g", "a", "s", "t", "o", "w", "n", "/", "c", "r", "e", "w", "/", "g", "u", "s">>,
      topic |-> <<"a", "s", "s", "i", "g", "n", "e", "d", ":", "g", "t", "-", "a", "b", "c", "1",
             "2">>],
     [input |-> <<"R", "e", "g", "u", "l", "a", "r", " ", "m", "e", "s", "s", "a", "g", "e", " ",
             "w", "i", "t", "h", "o", "u", "t", " ", "b", "e", "a", "c", "o", "n">>,
      shouldMatch |-> FALSE, role |-> << >>, topic |-> << >>],
     [input |-> <<TAG, " ", "w", "i", "t", "n", "e", "s", "s", " ", BULLET, " ", "h", "a", "n",
             "d", "o", "f", "f">>,
      shouldMatch |-> TRUE,
      role |-> <<"w", "i", "t", "n", "e", "s", "s">>,
      topic |-> <<"h", "a", "n", "d", "o", "f", "f">>]}

\* message texts
BeaconTexts == Texts({TAG, " ", BULLET, "a"}, MaxText)
                  \cup {t.input : t \in GasTownPatternTests}

MaxIdLen == 9

\* a character that takes two bytes in a Go string: U+00E9, encoded C3 A9
WIDE == "U+00E9"

RECURSIVE UTF8(_)
\* the bytes of a Go string holding the characters of text
UTF8(text) ==
    IF text = << >> THEN << >>
    ELSE (IF Head(text) = WIDE THEN <<"0xC3", "0xA9">> ELSE <<Head(text)>>) \o UTF8(Tail(text))

\* the ids of TestSessionInfoShortID
ShortIDTests ==
    {<<"d", "6", "d", "8", "4", "7", "5", "f", "-", "9", "4", "a", "9", "-", "4",
       "a", "6", "6", "-", "b", "f", "a", "6", "-", "d", "6", "0", "1", "2",
       "6", "9", "6", "4", "4", "2", "7">>,
     <<"a", "b", "c">>}

\* session ids
Ids == Texts({"a", WIDE}, MaxIdLen) \cup ShortIDTests

PureInit ==
    /\ ppc = "call"
    /\ \/ fn = "decodePath" /\ arg \in Names
       \/ fn = "FindStringSubmatch" /\ arg \in BeaconTexts
       \/ fn = "ShortID" /\ arg \in Ids
    /\ ret = << >>
    /\ DiscIdle
    /\ ScanIdle

\* decodePath(arg)
CallDecodePath ==
    /\ ppc = "call"
    /\ fn = "decodePath"
    /\ ret' = decodePath(arg)
    /\ ppc' = "done"
    /\ UNCHANGED <<fn, arg, scanVars, discVars>>

\* gasTownPattern.FindStringSubmatch(arg) (line 189)
CallFindStringSubmatch ==
    /\ ppc = "call"
    /\ fn = "FindStringSubmatch"
    /\ ret' = FindStringSubmatch(arg)
    /\ ppc' = "done"
    /\ UNCHANGED <<fn, arg, scanVars, discVars>>

\* SessionInfo{ID: arg}.ShortID(); ret is the string returned, as bytes
CallShortID ==
    /\ ppc = "call"
    /\ fn = "ShortID"
    /\ ret' = ShortID(UTF8(arg))
    /\ ppc' = "done"
    /\ UNCHANGED <<fn, arg, scanVars, discVars>>

PureNext == CallDecodePath \/ CallFindStringSubmatch \/ CallShortID

SpecPure == PureInit /\ [][PureNext]_vars

(***************************************************************************)
(* Properties of DiscoverSessions                                          *)
(***************************************************************************)
\* the walk over the storage root is over
Walked == dpc \in {"sort", "limit"} \/ outcome = "ok"

Returned == dpc = "returned" /\ outcome = "ok"

InSeq(x, seq) == \E i \in 1..Len(seq) : seq[i] = x

\* two characters that differ at most in case
SameLetter(a, b) ==
    \/ a = b
    \/ a \in DOMAIN UpperToLower /\ UpperToLower[a] = b
    \/ b \in DOMAIN UpperToLower /\ UpperToLower[b] = a

\* sub occurs in s, case ignored
ContainsFold(s, sub) ==
    \E i \in 1..(Len(s) - Len(sub) + 1) : \A k \in 1..Len(sub) : SameLetter(s[i + k - 1], sub[k])

\* a top-level session log by its name
IsLogName(name) ==
    /\ Len(name) >= Len(JSONL)
    /\ SubSeq(name, Len(name) - Len(JSONL) + 1, Len(name)) = JSONL
    /\ ~(Len(name) >= Len(AGENT) /\ SubSeq(name, 1, Len(AGENT)) = AGENT)

PathOf(entry, file) == ProjectsDir \o <<"/">> \o entry.name \o <<"/">> \o file.name

\* C6: before sorting and limiting, a scanned descriptor is in the result exactly
\* when (the beacon-only flag is off or it is beaconed) and (the role filter is
\* empty or occurs, case ignored, in its role or in its decoded path).
C6_FilterIff ==
    dpc = "sort" =>
       \A i \in 1..Len(scanned) :
          LET d == scanned[i]
          IN  InSeq(d, sessions) <=>
                 /\ ~filter.GasTownOnly \/ d.IsGasTown
                 /\ \/ filter.Role = EmptyStr
                    \/ ContainsFold(d.Role, filter.Role)
                    \/ ContainsFold(d.Path, filter.Role)

C6_Witness ==
    /\ dpc = "sort"
    /\ filter.GasTownOnly
    /\ filter.Role = <<"C">>
    /\ Len(sessions) < Len(scanned)
    /\ \E i \in 1..Len(sessions) : sessions[i].Role = <<"c">>

\* C7 as stated: the log files of a project directory that can be listed are
\* opened exactly when the decoded path contains the rig filter, if any, and the
\* path filter, if any, as substrings; otherwise none of its files is opened.
C7_RigSubstring ==
    \A i \in 1..Len(entries) : \A j \in 1..Len(entries[i].files) :
       LET e == entries[i]
           path == decodePath(e.name)
           pass == /\ filter.Rig = EmptyStr \/ Contains(path, filter.Rig)
                   /\ filter.Path = EmptyStr \/ Contains(path, filter.Path)
       IN  /\ PathOf(e, e.files[j]) \in opened => pass
           /\ (Walked /\ e.isDir /\ e.readable /\ pass /\ IsLogName(e.files[j].name))
                 => PathOf(e, e.files[j]) \in opened

\* C7 as amended: the log files of a project directory are opened exactly when
\* the entry is a directory that can be listed and its decoded path contains the
\* rig filter, if any, as a whole path segment with a segment after it
\* ("/" rig "/"), and the path filter, if any, as a substring; for any other
\* entry no file is ever opened.
C7_RigSegment ==
    \A i \in 1..Len(entries) : \A j \in 1..Len(entries[i].files) :
       LET e == entries[i]
           path == decodePath(e.name)
           pass == /\ e.isDir
                   /\ e.readable
                   /\ filter.Rig = EmptyStr \/ Contains(path, <<"/">> \o filter.Rig \o <<"/">>)
                   /\ filter.Path = EmptyStr \/ Contains(path, filter.Path)
       IN  /\ PathOf(e, e.files[j]) \in opened => (pass /\ IsLogName(e.files[j].name))
           /\ (Walked /\ pass /\ IsLogName(e.files[j].name)) => PathOf(e, e.files[j]) \in opened

C7_Witness ==
    /\ Walked
    /\ filter.Rig = <<"r">>
    /\ filter.Path = <<"/", "g", "t">>
    /\ \E i \in 1..Len(entries) : /\ decodePath(entries[i].name) = <<"/", "g", "t", "/", "r">>
                                 /\ PathOf(entries[i], entries[i].files[1]) \notin opened
    /\ opened # {}

\* C8: no file whose name starts with "agent-" or does not end with ".jsonl" is
\* opened, and no descriptor comes from one.
C8_NoAgentFiles ==
    /\ \A p \in opened : IsLogName(Base(p))
    /\ \A i \in 1..Len(scanned) : IsLogName(Base(scanned[i].FilePath))
    /\ \A i \in 1..Len(sessions) : IsLogName(Base(sessions[i].FilePath))
    /\ \A i \in 1..Len(result) : IsLogName(Base(result[i].FilePath))

C8_Witness ==
    /\ Returned
    /\ result # << >>
    /\ \E i \in 1..Len(entries) : \E j \in 2..Len(entries[i].files) :
          /\ ~IsLogName(entries[i].files[j - 1].name)
          /\ PathOf(entries[i], entries[i].files[j]) \in opened

\* C9 as stated: in the returned sequence no element's startTime is before its
\* successor's, and every descriptor with a zero startTime comes after every
\* descriptor with a non-zero startTime.
C9_ZeroLast ==
    Returned =>
       /\ \A i \in 1..(Len(result) - 1) : ~(result[i].StartTime < result[i + 1].StartTime)
       /\ \A i \in 1..Len(result) : \A j \in (i + 1)..Len(result) :
             ~(IsZero(result[i].StartTime) /\ ~IsZero(result[j].StartTime))

\* C9 as amended: in the returned sequence no element's startTime is before its
\* successor's, a zero startTime counting as the instant 0001-01-01T00:00:00Z:
\* every descriptor with a zero startTime comes after every descriptor whose
\* startTime is later than that instant and before every one whose startTime is
\* earlier.
C9_SortedDescending ==
    Returned =>
       /\ \A i \in 1..(Len(result) - 1) : ~(result[i].StartTime < result[i + 1].StartTime)
       /\ \A i \in 1..Len(result) : \A j \in 1..Len(result) :
             (IsZero(result[i].StartTime) /\ result[j].StartTime > 0) => j < i
       /\ \A i \in 1..Len(result) : \A j \in 1..Len(result) :
             (IsZero(result[i].StartTime) /\ result[j].StartTime < 0) => i < j

C9_Witness ==
    /\ Returned
    /\ Len(result) = Len(scanned)
    /\ Len(result) >= 3
    /\ IsZero(scanned[1].StartTime)
    /\ result[1].StartTime > 0
    /\ result[Len(result)].StartTime < 0

\* C10: with N descriptors after filtering and limit L, min(N, L) descriptors are
\* returned when L > 0 and all N when L <= 0, and they are the first ones of the
\* sorted sequence.
C10_Limit ==
    Returned =>
       /\ Len(result) = IF filter.Limit > 0 THEN Min({Len(sessions), filter.Limit})
                        ELSE Len(sessions)
       /\ result = SubSeq(sessions, 1, Len(result))

C10_Witness ==
    /\ Returned
    /\ filter.Limit > 0
    /\ Len(sessions) > filter.Limit
    /\ Len(result) = filter.Limit

Stem(name) == SubSeq(name, 1, Len(name) - Len(JSONL))

\* the session id of the first user record after line 1 that has one, if any
FirstSessionId(lines) ==
    LET has == {k \in 2..Len(lines) :
                  lines[k].dec /\ lines[k].type = "user" /\ lines[k].sessionId # EmptyStr}
    IN  IF has = {} THEN EmptyStr ELSE lines[Min(has)].sessionId

\* C13 as stated: the id of a descriptor is never empty; it is the file name
\* without its extension, or, when that is empty, the session id of the first
\* user record that has one.
C13_IdNeverEmpty ==
    \A i \in 1..Len(scanned) :
       LET d == scanned[i]
           stem == Stem(Base(d.FilePath))
       IN  /\ d.ID # EmptyStr
           /\ d.ID = stem \/ (stem = EmptyStr /\ d.ID = FirstSessionId(source[i].lines))

\* C13 as amended: for a file whose name is longer than ".jsonl" the id is the
\* file name without that extension, whatever session ids its records carry.
\* For a file named ".jsonl" the id is empty or the session id of the first user
\* record after line 1 that has one; when the file is read to its end without
\* an early exit it is that session id, and empty when no such record exists.
C13_IdFromNameOrFirstRecord ==
    \A i \in 1..Len(scanned) :
       LET d == scanned[i]
           stem == Stem(Base(d.FilePath))
           content == source[i]
       IN  /\ stem # EmptyStr => d.ID = stem
           /\ stem = EmptyStr =>
                 /\ d.ID \in {EmptyStr, FirstSessionId(content.lines)}
                 /\ (content.failAt = 0 /\ Len(content.lines) <= EarlyExitLines)
                       => d.ID = FirstSessionId(content.lines)

\* a file named ".jsonl" without a session id to adopt has been scanned, and a
\* file with a longer name whose user records carry a session id
C13_Witness ==
    \E i, j \in 1..Len(scanned) :
       /\ Base(scanned[i].FilePath) = JSONL
       /\ scanned[i].ID = EmptyStr
       /\ source[i].lines[1].sessionId # EmptyStr
       /\ Stem(Base(scanned[j].FilePath)) # EmptyStr
       /\ FirstSessionId(source[j].lines) # EmptyStr

\* C14: decodePath of a name that begins with "-" begins with "/" and has no
\* "-"; with or without a leading "-", the result is the name with each "-"
\* replaced by "/" and every other character kept, so decodePath("foo-bar") is
\* "foo/bar"; every name has a result.
C14_DecodePath ==
    (ppc = "done" /\ fn = "decodePath") =>
       /\ HasPrefix(arg, <<"-">>) => (ret[1] = "/" /\ \A i \in 1..Len(ret) : ret[i] # "-")
       /\ Len(ret) = Len(arg)
       /\ \A i \in 1..Len(arg) : ret[i] = IF arg[i] = "-" THEN "/" ELSE arg[i]
       /\ arg = <<"f", "o", "o", "-", "b", "a", "r">>
             => ret = <<"f", "o", "o", "/", "b", "a", "r">>

\* a name without a leading "-" and with one inside has been decoded
C14_Witness ==
    /\ ppc = "done"
    /\ fn = "decodePath"
    /\ ~HasPrefix(arg, <<"-">>)
    /\ \E i \in 2..Len(arg) : arg[i] = "-" /\ ret[i] = "/"

AllSpace(s, p, q) == \A m \in p..(q - 1) : IsSpace(s[m])

\* a further field at g: the separator, white space, a token without white
\* space, and white space up to the end of the text
TokenField(s, g) ==
    /\ g <= Len(s)
    /\ s[g] = BULLET
    /\ \E h \in (g + 1)..Len(s) : \E k \in (h + 1)..End(s) :
          /\ AllSpace(s, g + 1, h)
          /\ \A m \in h..(k - 1) : IsNonSpace(s[m])
          /\ AllSpace(s, k, End(s))

\* what may follow the role and the white space after it, which ends at c: a
\* topic field up to f (the separator and at least one character, none of
\* them the separator) or none (f = c), then a further field or the end
FieldsAfter(s, c, f) ==
    /\ \/ f = c
       \/ c <= Len(s) /\ s[c] = BULLET /\ f >= c + 2 /\ \A m \in (c + 1)..(f - 1) : s[m] # BULLET
    /\ f = End(s) \/ TokenField(s, f)

\* the ways to read s from the tag at i to its end as: tag, white space, role
\* token, optional topic field, optional further field, white space
Readings(s, i) ==
    IF s[i] # TAG THEN {}
    ELSE UNION {UNION {UNION {
            {[role |-> SubSeq(s, a, b - 1),
              withTopic |-> f > c,
              topic |-> IF f > c THEN TrimSpace(SubSeq(s, c + 1, f - 1)) ELSE << >>] :
               f \in {f \in c..End(s) : FieldsAfter(s, c, f)}} :
            c \in {c \in b..End(s) : AllSpace(s, b, c)}} :
            b \in {b \in (a + 1)..End(s) : \A m \in a..(b - 1) : IsRoleChar(s[m])}} :
            a \in {a \in (i + 2)..End(s) : AllSpace(s, i + 1, a)}}

\* C15: the pattern matches a text exactly when the text can be read, from some
\* tag to its end, as tag, white space, role token, optional topic field,
\* optional further field, white space.  On a match the role and the trimmed
\* topic are those of the reading from the leftmost such tag, with the topic
\* field taken when a reading has one and an empty topic otherwise; a text
\* without the tag does not match; the cases of TestGasTownPattern come out
\* as the test expects.
C15_BeaconMatcher ==
    (ppc = "done" /\ fn = "FindStringSubmatch") =>
       LET tags == {i \in 1..Len(arg) : Readings(arg, i) # {}}
       IN  /\ ret.ok <=> tags # {}
           /\ (\A i \in 1..Len(arg) : arg[i] # TAG) => ~ret.ok
           /\ ret.ok =>
                 LET all == Readings(arg, Min(tags))
                     preferred == IF \E r \in all : r.withTopic
                                  THEN {r \in all : r.withTopic} ELSE all
                 IN  \A r \in preferred :
                        ret.role = r.role /\ TrimSpace(ret.topic) = r.topic
           /\ \A t \in GasTownPatternTests :
                 arg = t.input =>
                    /\ ret.ok = t.shouldMatch
                    /\ ret.role = t.role
                    /\ ret.topic = t.topic

\* a text that begins before the tag and has a topic has been matched
C15_Witness ==
    /\ ppc = "done"
    /\ fn = "FindStringSubmatch"
    /\ arg # << >>
    /\ arg[1] # TAG
    /\ ret.ok
    /\ ret.topic # << >>

\* runSeance has printed its text for a result without sessions
SaysNothingFound == dpc = "reported" /\ report.text = EmptyMessage(~filter.GasTownOnly)

\* C16 as stated: the text that runSeance prints (JSON output aside) when there
\* is no session storage is not the text it prints when sessions were scanned
\* and the filters kept none of them; no error is reported in either case.
C16_DistinctMessage ==
    /\ (dpc = "reported" /\ outcome = "nostorage" /\ report.text # "json") => SaysNothingFound
    /\ (SaysNothingFound /\ scanned # << >>) => outcome = "nostorage"
    /\ (dpc = "reported" /\ Len(result) = 0 /\ outcome # "error") => ~report.err

\* DiscoverSessions has returned
Finished == dpc \in {"returned", "reported"}

\* a project directory that the rig and path filters let through
Qualifies(entry) ==
    /\ entry.isDir
    /\ RigPasses(filter, decodePath(entry.name))
    /\ PathPasses(filter, decodePath(entry.name))

\* the log files of the qualifying project directories that can be listed
Candidates ==
    {<<i, j>> \in (1..Len(entries)) \X (1..5) :
        /\ j <= Len(entries[i].files)
        /\ Qualifies(entries[i])
        /\ entries[i].readable
        /\ IsLogName(entries[i].files[j].name)}

HasDescriptor(path) == \E k \in 1..Len(scanned) : scanned[k].FilePath = path

\* every log file that can be opened has its descriptor, and no other file
SkipsOnlyFailures ==
    /\ Walked =>
         \A c \in Candidates :
            LET file == entries[c[1]].files[c[2]]
            IN  HasDescriptor(PathOf(entries[c[1]], file)) <=> file.openable
    /\ \A i \in 1..Len(entries) : \A j \in 1..Len(entries[i].files) :
          (~entries[i].readable \/ ~entries[i].files[j].openable)
             => ~HasDescriptor(PathOf(entries[i], entries[i].files[j]))

\* C17 as stated: an error is returned exactly when the storage directory
\* exists and cannot be listed; when there is no storage directory the result
\* is empty and there is no error; a project directory or a log file that
\* cannot be opened is skipped and every other log file has its descriptor.
C17_ErrorIffExistsUnlistable ==
    /\ Finished => (outcome = "error" <=> root = "unlistable")
    /\ (Finished /\ root \in {"missing", "blocked"}) => (outcome # "error" /\ result = << >>)
    /\ SkipsOnlyFailures

\* C17 as amended: an error is returned exactly when the storage directory is
\* not reported missing and cannot be listed, whether it exists and cannot be
\* read or its path cannot be followed; when the directory is missing the
\* result is empty and there is no error; a project directory or a log file
\* that cannot be opened is skipped and every other log file has its
\* descriptor.
C17_ErrorIffReadDirFails ==
    /\ Finished => (outcome = "error" <=> root \in {"blocked", "unlistable"})
    /\ (Finished /\ root = "missing") => (outcome = "nostorage" /\ result = << >>)
    /\ (Finished /\ outcome = "error") => result = << >>
    /\ SkipsOnlyFailures

\* a log file that cannot be opened and a project directory that cannot be
\* listed were passed over, and a file after them was scanned
C17_Witness ==
    /\ Returned
    /\ \E i \in 1..Len(entries) : \E j \in 1..Len(entries[i].files) :
          /\ ~entries[i].files[j].openable
          /\ PathOf(entries[i], entries[i].files[j]) \in opened
          /\ \E k \in (i + 1)..Len(entries) :
                /\ entries[k].files # << >>
                /\ HasDescriptor(PathOf(entries[k], entries[k].files[1]))
    /\ \E i \in 1..Len(entries) : ~entries[i].readable /\ Qualifies(entries[i])

\* C18: reading a line that cannot be decoded changes no field of the
\* descriptor and does not end the scan, which goes on to the next line.
C18_UndecodableLineSkipped ==
    [][(lineNum' = lineNum + 1 /\ ~hist'.decoded)
          => (info' = info /\ spc' = "scan" /\ exit' = "none")]_vars

\* a line past the early-exit line count was not decoded while the descriptor
\* already had its beacon and its start time, and the scan goes on
C18_Witness ==
    /\ spc = "scan"
    /\ lineNum > EarlyExitLines
    /\ ~hist.decoded
    /\ info.IsGasTown
    /\ ~IsZero(info.StartTime)

\* C19 as stated: ShortID returns the first 8 characters of an id of more than
\* 8 characters and an id of at most 8 characters unchanged.
C19_FirstEightCharacters ==
    (ppc = "done" /\ fn = "ShortID") =>
       ret = UTF8(IF Len(arg) > 8 THEN SubSeq(arg, 1, 8) ELSE arg)

\* the descriptor after every line of the file has gone through the loop body,
\* from line n on, without the test that ends the scan early
RECURSIVE ReadToEnd(_, _, _)
ReadToEnd(d, content, n) ==
    IF n > Len(content.lines) \/ n = content.failAt THEN d
    ELSE ReadToEnd(ParseLine(d, content.lines[n], n), content, n + 1)

\* C20 as stated: the descriptor of every scanned file is the descriptor that
\* reading the file to its end without the early exit gives.
C20_EarlyExitChangesNothing ==
    \A i \in 1..Len(scanned) :
       scanned[i] = ReadToEnd(NewInfo(scanned[i].FilePath, scanned[i].Path), source[i], 1)

\* C21: DiscoverSessions never holds more than one open handle; it holds one
\* only while the file is being scanned, so every scan, however it ends, has
\* closed its file before the next one is opened, and none is open when
\* DiscoverSessions returns.
C21_OneHandle ==
    /\ Cardinality(handles) <= 1
    /\ dpc # "scan" => handles = {}

\* a file is open after earlier scans ended by the early exit, by a read
\* error and at the end of the file
C21_Witness ==
    /\ dpc = "scan"
    /\ Cardinality(handles) = 1
    /\ \A how \in {"break", "readerr", "eof"} :
          \E i \in 1..Len(scanned) :
             ScanExit(scanned[i].FilePath, scanned[i].Path, source[i]) = how

====
